---- MODULE Spec2Model ----
(***************************************************************************)
(* The fba command line (backend/cli.py): the initialization workflow      *)
(* (init, init --auto), plugin installation (add) and the bare --sql       *)
(* script execution, as one sequential state machine.  Every external call *)
(* (database, cache, file system, plugin installer) may raise: each action *)
(* draws the outcome of its call with \E.                                   *)
(***************************************************************************)
EXTENDS Integers, Sequences, FiniteSets, TLC

\* Largest number of statements parse_sql_script returns for one script.
MaxStmts == 3

DbTypes == {"mysql", "postgresql"}
PkTypes == {"autoincrement", "snowflake"}
PluginNames == {"pA", "pB"}
Answers == {"y", "n"}

\* The four cache prefixes init clears, in the order of the calls.
CachePrefixes_Missing ==
    <<"JWT_USER_REDIS_PREFIX", "TOKEN_EXTRA_INFO_REDIS_PREFIX",
      "TOKEN_REDIS_PREFIX">>

CachePrefixes ==
    <<"JWT_USER_REDIS_PREFIX", "TOKEN_EXTRA_INFO_REDIS_PREFIX",
      "TOKEN_REDIS_PREFIX", "TOKEN_REFRESH_REDIS_PREFIX">>

Range(s) == {s[i] : i \in 1..Len(s)}

\* Python's None for a script path, and the path objects themselves.
NoPath == [owner |-> "None", db |-> "", pk |-> ""]
SqlPath(o, d, p) == [owner |-> o, db |-> d, pk |-> p]
UserSql == SqlPath("user.sql", "", "")

\* A row written by statement n of a script; the row the database holds
\* before any command runs.
Row(path, n) == [src |-> path, n |-> n]
PreRow == [src |-> SqlPath("pre-existing", "", ""), n |-> 0]

\* One external call or console message: what, on what, and whether it returned
\* (ok) or raised.
Event(op, who, ok) == [op |-> op, who |-> who, ok |-> ok]

VARIABLES
    cmd,         \* the subcommand invoked: "init", "auto", "add" or "sql"
    args,        \* its arguments (path, repo_url, no_sql, db_type, pk_type, sql)
    pc,          \* position of the single task in cli.py
    exitCode,    \* exit status of the process, meaningful once pc = "exit"
    failed,      \* the step that failed, "" while none has
    settings,    \* backend.core.conf.settings (the fields cli.py reads)
    settings0,   \* settings as loaded when the process started
    envFile,     \* the live .env file: whether it exists, and its text
    envFile0,    \* the live .env file when the process started
    template,    \* whether .env.example exists
    templateText, \* the text of .env.example
    answers,     \* what the user will answer to the prompts of setup_env_file
    dbExists,    \* server: the target database exists
    tables,      \* server: the managed tables exist
    data,        \* server: committed rows of the target database
    txnOpen,     \* a session transaction is open
    txnData,     \* rows as seen inside the open transaction
    cache,       \* set of prefixes under which the cache holds keys
    engine,      \* administrative engine: "none", "open" or "disposed"
    plugins,     \* Plugin Registry: installed plugins in enumeration order
    files,       \* seed scripts present on disk
    trace,       \* external calls and console messages so far
    exists,      \* local of create_database_if_not_exists
    provOk,      \* whether provisioning has raised nothing so far
    sql_scripts, \* local of init: the resolved script list
    idx,         \* loop position in init (cache prefix, script)
    cur,         \* argument of the running execute_sql_scripts
    stmts,       \* number of statements parse_sql_script returned
    k,           \* statements of cur executed so far
    preData,     \* committed rows when the running execute_sql_scripts began
    plugin_name  \* local of install_plugin

vars == <<cmd, args, pc, exitCode, failed, settings, settings0, envFile, envFile0,
          template, templateText, answers, dbExists,
          tables, data, txnOpen, txnData, cache, engine, plugins, files, trace,
          exists, provOk, sql_scripts, idx, cur, stmts, k, preData, plugin_name>>

serverVars == <<dbExists, tables, data>>
txnVars == <<txnOpen, txnData>>
provVars == <<engine, exists, provOk>>
execVars == <<cur, stmts, k, preData>>
inputVars ==
    <<cmd, args, template, templateText, answers, files, settings0, envFile0>>

Log(e) == trace' = Append(trace, e)

(***************************************************************************)
(* Collaborators consumed by cli.py: Plugin Registry, Schema Manager,      *)
(* Cache, session transaction.                                             *)
(***************************************************************************)

\* get_plugin_sql(plugin, db_type, pk_type): the plugin's seed script for the
\* dialect and key mode, None when the plugin ships none.
GetPluginSql(plugin, db_type, pk_type, fs) ==
    IF SqlPath(plugin, db_type, pk_type) \in fs
    THEN SqlPath(plugin, db_type, pk_type)
    ELSE NoPath

\* redis_client.delete_prefix(prefix)
DeletePrefix(c, prefix) == c \ {prefix}

\* Leaving `async with async_db_session.begin()`: commit when the block ended
\* normally, rollback when an exception leaves it (execute_sql_scripts re-raises
\* every error as cappa.Exit from inside the block).
SessionExit_CommitAlways(raised, committed, view) == view

SessionExit_NeverCommit(raised, committed, view) == committed

SessionExit(raised, committed, view) == IF raised THEN committed ELSE view

(***************************************************************************)
(* get_sql_scripts                                                         *)
(***************************************************************************)

MainSqlFile(s) ==
    SqlPath("main",
            IF s.DATABASE_TYPE = "mysql" THEN "mysql" ELSE "postgresql",
            IF s.DATABASE_PK_MODE = "autoincrement" THEN "autoincrement"
                                                     ELSE "snowflake")

RECURSIVE PluginScripts(_, _, _)
PluginScripts(ps, s, fs) ==
    IF ps = <<>> THEN <<>>
    ELSE LET plugin_sql == GetPluginSql(Head(ps), s.DATABASE_TYPE,
                                        s.DATABASE_PK_MODE, fs)
         IN (IF plugin_sql # NoPath THEN <<plugin_sql>> ELSE <<>>)
            \o PluginScripts(Tail(ps), s, fs)

GetSqlScripts_NoExistsCheck(s, ps, fs) ==
    <<MainSqlFile(s)>> \o PluginScripts(ps, s, fs)

GetSqlScripts(s, ps, fs) ==
    (IF MainSqlFile(s) \in fs THEN <<MainSqlFile(s)>> ELSE <<>>)
    \o PluginScripts(ps, s, fs)

(***************************************************************************)
(* Process exit and control transfer                                       *)
(***************************************************************************)

\* raise cappa.Exit(..., code=code), or an exception nobody catches (the
\* interpreter then exits with status 1 as well).
Exit(code, step) == pc' = "exit" /\ exitCode' = code /\ failed' = step

\* Normal end of the invoked command.
Return == pc' = "exit" /\ UNCHANGED <<exitCode, failed>>

Goto(p) == pc' = p /\ UNCHANGED <<exitCode, failed>>

IsInit == cmd \in {"init", "auto"}

\* if ok.lower() == 'y': the prompt offers the choices 'y' and 'n'.
Confirmed_Always(ok) == TRUE

Confirmed(ok) == ok = "y"

(***************************************************************************)
(* execute_sql_scripts                                                     *)
(***************************************************************************)

\* async with async_db_session.begin() as db:
ExecBegin ==
    /\ pc = "exec_begin"
    /\ txnOpen' = TRUE
    /\ txnData' = data
    /\ preData' = data
    /\ k' = 0
    /\ stmts' = 0
    /\ Goto("exec_parse")
    /\ UNCHANGED <<inputVars, settings, envFile, serverVars, cache, provVars,
                   plugins, trace, sql_scripts, idx, cur, plugin_name>>

\* stmts = await parse_sql_script(sql_scripts)
ExecParse ==
    /\ pc = "exec_parse"
    /\ \E ok \in BOOLEAN :
         /\ Log(Event("parse_sql_script", cur, ok))
         /\ IF ok
            THEN /\ \E n \in 0..MaxStmts : stmts' = n
                 /\ Goto("exec_loop")
            ELSE /\ stmts' = stmts
                 /\ Goto("exec_except")
    /\ UNCHANGED <<inputVars, settings, envFile, serverVars, txnVars, cache,
                   provVars, plugins, sql_scripts, idx, cur, k, preData,
                   plugin_name>>

\* for stmt in stmts: await db.execute(text(stmt))
ExecStmt ==
    /\ pc = "exec_loop"
    /\ k < stmts
    /\ \E ok \in (IF dbExists THEN BOOLEAN ELSE {FALSE}) :
         /\ Log(Event("execute", Row(cur, k + 1), ok))
         /\ IF ok
            THEN /\ txnData' = Append(txnData, Row(cur, k + 1))
                 /\ k' = k + 1
                 /\ Goto("exec_loop")
            ELSE /\ UNCHANGED <<txnData, k>>
                 /\ Goto("exec_except")
    /\ UNCHANGED <<inputVars, settings, envFile, serverVars, txnOpen, cache,
                   provVars, plugins, sql_scripts, idx, cur, stmts, preData,
                   plugin_name>>

\* What the caller of execute_sql_scripts does with an exception: init wraps it
\* in cappa.Exit(code=1), install_plugin does the same, the bare --sql lets
\* cappa.Exit(code=1) reach cappa.
ExecRaise_Continue == Goto("exec_done")

ExecRaise == Exit(1, "script")

\* except Exception as e: raise cappa.Exit(..., code=1), which leaves the
\* `async with` block and so rolls the transaction back.  The handler touches
\* nothing else: in particular it does not uninstall a plugin.
ExecExcept_Uninstall ==
    /\ pc = "exec_except"
    /\ data' = SessionExit(TRUE, data, txnData)
    /\ txnOpen' = FALSE
    /\ txnData' = <<>>
    /\ Log(Event("transaction_end", cur, FALSE))
    /\ ExecRaise
    /\ plugins' = SelectSeq(plugins, LAMBDA p : p # plugin_name)
    /\ UNCHANGED <<inputVars, settings, envFile, dbExists, tables, cache,
                   provVars, sql_scripts, idx, execVars, plugin_name>>

ExecExcept ==
    /\ pc = "exec_except"
    /\ data' = SessionExit(TRUE, data, txnData)
    /\ txnOpen' = FALSE
    /\ txnData' = <<>>
    /\ Log(Event("transaction_end", cur, FALSE))
    /\ ExecRaise
    /\ UNCHANGED <<inputVars, settings, envFile, dbExists, tables, cache,
                   provVars, plugins, sql_scripts, idx, execVars, plugin_name>>

\* The end of the `async with` block after the last statement: commit.  A commit
\* that fails raises outside the try block; every caller turns that into exit
\* status 1 too.
ExecCommit ==
    /\ pc = "exec_loop"
    /\ k = stmts
    /\ txnOpen' = FALSE
    /\ txnData' = <<>>
    /\ \E ok \in (IF k = 0 THEN {TRUE} ELSE BOOLEAN) :
         /\ Log(Event("transaction_end", cur, ok))
         /\ data' = SessionExit(~ok, data, txnData)
         /\ IF ok THEN Goto("exec_done") ELSE ExecRaise
    /\ UNCHANGED <<inputVars, settings, envFile, dbExists, tables, cache,
                   provVars, plugins, sql_scripts, idx, execVars, plugin_name>>

\* if not is_init: console.print('SQL 脚本已执行完成'); then back in the caller.
ExecDone ==
    /\ pc = "exec_done"
    /\ trace' = IF IsInit THEN trace
                ELSE Append(trace, Event("print", "sql_done", TRUE))
    /\ IF IsInit
       THEN idx' = idx + 1 /\ Goto("init_loop")
       ELSE idx' = idx /\ Return
    /\ UNCHANGED <<inputVars, settings, envFile, serverVars, txnVars, cache,
                   provVars, plugins, sql_scripts, execVars, plugin_name>>

(***************************************************************************)
(* init                                                                    *)
(***************************************************************************)

\* ok = Prompt.ask('即将新建/重建数据库表并执行所有数据库脚本，确认继续吗？')
InitAsk ==
    /\ pc = "init_ask"
    /\ \E ok \in Answers :
         IF Confirmed(ok)
         THEN /\ Log(Event("ask_init", ok, TRUE))
              /\ idx' = 1
              /\ Goto("init_cache")
         ELSE /\ trace' = trace \o <<Event("ask_init", ok, TRUE),
                                     Event("print", "init_cancelled", TRUE)>>
              /\ idx' = idx
              /\ Return
    /\ UNCHANGED <<inputVars, settings, envFile, serverVars, txnVars, cache,
                   provVars, plugins, sql_scripts, execVars, plugin_name>>

\* await redis_client.delete_prefix(...), four times
InitDeletePrefix ==
    /\ pc = "init_cache"
    /\ \E ok \in BOOLEAN :
         /\ Log(Event("delete_prefix", CachePrefixes[idx], ok))
         /\ IF ok
            THEN /\ cache' = DeletePrefix(cache, CachePrefixes[idx])
                 /\ idx' = idx + 1
                 /\ Goto(IF idx < Len(CachePrefixes) THEN "init_cache"
                                                     ELSE "init_drop")
            ELSE /\ UNCHANGED <<cache, idx>>
                 /\ Exit(1, "cache")
    /\ UNCHANGED <<inputVars, settings, envFile, serverVars, txnVars, provVars,
                   plugins, sql_scripts, execVars, plugin_name>>

\* await drop_tables()
InitDropTables ==
    /\ pc = "init_drop"
    /\ \E ok \in (IF dbExists THEN BOOLEAN ELSE {FALSE}) :
         /\ Log(Event("drop_tables", "", ok))
         /\ IF ok
            THEN /\ tables' = FALSE
                 /\ data' = <<>>
                 /\ Goto("init_create")
            ELSE /\ UNCHANGED <<tables, data>>
                 /\ Exit(1, "tables")
    /\ UNCHANGED <<inputVars, settings, envFile, dbExists, txnVars, cache,
                   provVars, plugins, sql_scripts, idx, execVars, plugin_name>>

\* await create_tables()
InitCreateTables ==
    /\ pc = "init_create"
    /\ \E ok \in BOOLEAN :
         /\ Log(Event("create_tables", "", ok))
         /\ IF ok
            THEN /\ tables' = TRUE
                 /\ Goto("init_scripts")
            ELSE /\ UNCHANGED tables
                 /\ Exit(1, "tables")
    /\ UNCHANGED <<inputVars, settings, envFile, dbExists, data, txnVars, cache,
                   provVars, plugins, sql_scripts, idx, execVars, plugin_name>>

\* sql_scripts = await get_sql_scripts()
InitGetSqlScripts ==
    /\ pc = "init_scripts"
    /\ \E ok \in BOOLEAN :
         /\ Log(Event("get_sql_scripts", "", ok))
         /\ IF ok
            THEN /\ sql_scripts' = GetSqlScripts(settings, plugins, files)
                 /\ idx' = 1
                 /\ Goto("init_loop")
            ELSE /\ UNCHANGED <<sql_scripts, idx>>
                 /\ Exit(1, "script")
    /\ UNCHANGED <<inputVars, settings, envFile, serverVars, txnVars, cache,
                   provVars, plugins, execVars, plugin_name>>

\* for sql_script in sql_scripts: await execute_sql_scripts(sql_script,
\* is_init=True); after the last one the success messages.
InitLoop ==
    /\ pc = "init_loop"
    /\ IF idx <= Len(sql_scripts)
       THEN /\ Log(Event("print", "executing", TRUE))
            /\ cur' = sql_scripts[idx]
            /\ Goto("exec_begin")
       ELSE /\ Log(Event("print", "init_success", TRUE))
            /\ cur' = cur
            /\ Return
    /\ UNCHANGED <<inputVars, settings, envFile, serverVars, txnVars, cache,
                   provVars, plugins, sql_scripts, idx, stmts, k, preData,
                   plugin_name>>

(***************************************************************************)
(* create_database_if_not_exists                                           *)
(***************************************************************************)

\* terminate_sql stays None for mysql and is set for postgresql.
HasTerminateSql_Always(s) == TRUE

HasTerminateSql(s) == s.DATABASE_TYPE # "mysql"

\* if exists: (if terminate_sql: terminate) drop; then create
AfterCheck_NoExistsTest(ex, s) ==
    IF HasTerminateSql(s) THEN "prov_terminate" ELSE "prov_drop"

AfterCheck_NeverDrop(ex, s) == "prov_create"

AfterCheck(ex, s) ==
    IF ex THEN (IF HasTerminateSql(s) THEN "prov_terminate" ELSE "prov_drop")
    ELSE "prov_create"

\* Where an exception raised inside `try: async with engine.connect()` goes:
\* through the finally clause, then to the outer except.
OnProvError_NoFinally == "prov_return"

OnProvError == "prov_finally"

\* One statement on the administrative connection that raised.
ProvRaise ==
    /\ provOk' = FALSE
    /\ Goto(OnProvError)

\* URL.create(...), the four SQL strings, create_async_engine(...)
ProvBuild ==
    /\ pc = "prov_build"
    /\ \E ok \in BOOLEAN :
         /\ Log(Event("create_async_engine", settings.DATABASE_TYPE, ok))
         /\ IF ok
            THEN /\ engine' = "open"
                 /\ provOk' = TRUE
                 /\ Goto("prov_connect")
            ELSE /\ engine' = engine
                 /\ provOk' = FALSE
                 /\ Goto("prov_return")
    /\ UNCHANGED <<inputVars, settings, envFile, serverVars, txnVars, cache,
                   plugins, exists, sql_scripts, idx, execVars, plugin_name>>

\* async with engine.connect() as conn:
ProvConnect ==
    /\ pc = "prov_connect"
    /\ \E ok \in BOOLEAN :
         /\ Log(Event("connect", "", ok))
         /\ IF ok THEN provOk' = provOk /\ Goto("prov_check") ELSE ProvRaise
    /\ UNCHANGED <<inputVars, settings, envFile, serverVars, txnVars, cache,
                   plugins, engine, exists, sql_scripts, idx, execVars,
                   plugin_name>>

\* result = await conn.execute(text(check_sql)); exists = result.fetchone() is
\* not None; then the branch on exists and terminate_sql.
ProvCheck ==
    /\ pc = "prov_check"
    /\ \E ok \in BOOLEAN :
         /\ Log(Event("admin_sql", "check", ok))
         /\ IF ok
            THEN /\ exists' = dbExists
                 /\ provOk' = provOk
                 /\ Goto(AfterCheck(exists', settings))
            ELSE /\ exists' = exists
                 /\ ProvRaise
    /\ UNCHANGED <<inputVars, settings, envFile, serverVars, txnVars, cache,
                   plugins, engine, sql_scripts, idx, execVars, plugin_name>>

\* await conn.execute(text(terminate_sql))
ProvTerminate ==
    /\ pc = "prov_terminate"
    /\ \E ok \in BOOLEAN :
         /\ Log(Event("admin_sql", "terminate", ok))
         /\ IF ok THEN provOk' = provOk /\ Goto("prov_drop") ELSE ProvRaise
    /\ UNCHANGED <<inputVars, settings, envFile, serverVars, txnVars, cache,
                   plugins, engine, exists, sql_scripts, idx, execVars,
                   plugin_name>>

\* await conn.execute(text(drop_sql))
ProvDrop ==
    /\ pc = "prov_drop"
    /\ \E ok \in BOOLEAN :
         /\ Log(Event("admin_sql", "drop", ok))
         /\ IF ok
            THEN /\ dbExists' = FALSE
                 /\ tables' = FALSE
                 /\ data' = <<>>
                 /\ provOk' = provOk
                 /\ Goto("prov_create")
            ELSE /\ UNCHANGED serverVars
                 /\ ProvRaise
    /\ UNCHANGED <<inputVars, settings, envFile, txnVars, cache, plugins, engine,
                   exists, sql_scripts, idx, execVars, plugin_name>>

\* await conn.execute(text(create_sql)); CREATE DATABASE of a database that
\* exists is an error of the server.
ProvCreate ==
    /\ pc = "prov_create"
    /\ \E ok \in (IF dbExists THEN {FALSE} ELSE BOOLEAN) :
         /\ IF ok
            THEN /\ trace' = trace \o <<Event("admin_sql", "create", ok),
                                        Event("print", "database_created", TRUE)>>
                 /\ dbExists' = TRUE
                 /\ tables' = FALSE
                 /\ data' = <<>>
                 /\ provOk' = provOk
                 /\ Goto("prov_finally")
            ELSE /\ Log(Event("admin_sql", "create", ok))
                 /\ UNCHANGED serverVars
                 /\ ProvRaise
    /\ UNCHANGED <<inputVars, settings, envFile, txnVars, cache, plugins, engine,
                   exists, sql_scripts, idx, execVars, plugin_name>>

\* finally: await engine.dispose()
ProvFinally ==
    /\ pc = "prov_finally"
    /\ engine' = "disposed"
    /\ Log(Event("dispose", "", TRUE))
    /\ Goto("prov_return")
    /\ UNCHANGED <<inputVars, settings, envFile, serverVars, txnVars, cache,
                   plugins, exists, provOk, sql_scripts, idx, execVars,
                   plugin_name>>

\* except Exception: return False / else: return True, and the caller's
\* `if not await create_database_if_not_exists(): raise cappa.Exit(code=1)`;
\* otherwise auto_init goes on to init().
ProvReturn_IgnoreFailure ==
    /\ pc = "prov_return"
    /\ Goto("init_ask")
    /\ UNCHANGED <<inputVars, settings, envFile, serverVars, txnVars, cache,
                   provVars, plugins, trace, sql_scripts, idx, execVars,
                   plugin_name>>

ProvReturn ==
    /\ pc = "prov_return"
    /\ IF provOk THEN Goto("init_ask") ELSE Exit(1, "database")
    /\ UNCHANGED <<inputVars, settings, envFile, serverVars, txnVars, cache,
                   provVars, plugins, trace, sql_scripts, idx, execVars,
                   plugin_name>>

(***************************************************************************)
(* setup_env_file and auto_init                                            *)
(***************************************************************************)

\* The keys setup_env_file rewrites with str.replace of the line holding the
\* default value, and the two it rewrites with re.sub on the key name.
ExactKeys ==
    {"DATABASE_TYPE", "DATABASE_HOST", "DATABASE_PORT", "DATABASE_USER",
     "DATABASE_PASSWORD", "REDIS_HOST", "REDIS_PORT", "REDIS_PASSWORD",
     "REDIS_DATABASE"}

RegexKeys == {"TOKEN_SECRET_KEY", "OPERA_LOG_ENCRYPT_SECRET_KEY"}

EnvKeys == ExactKeys \cup RegexKeys

\* The value a key has in a text without a line for it.
Absent == "<no line>"

\* The value each str.replace looks for.
DefaultOf(key) ==
    CASE key = "DATABASE_TYPE"     -> "postgresql"
      [] key = "DATABASE_HOST"     -> "127.0.0.1"
      [] key = "DATABASE_PORT"     -> "5432"
      [] key = "DATABASE_USER"     -> "postgres"
      [] key = "DATABASE_PASSWORD" -> "123456"
      [] key = "REDIS_HOST"        -> "127.0.0.1"
      [] key = "REDIS_PORT"        -> "6379"
      [] key = "REDIS_PASSWORD"    -> ""
      [] key = "REDIS_DATABASE"    -> "0"
      [] OTHER                     -> "template-secret"

\* What the user answers to the nine prompts: the defaults the prompts offer
\* for the chosen database type, or values of the user's own.
AnswersOf(db_type, own) ==
    [key \in ExactKeys |->
        CASE key = "DATABASE_TYPE" -> db_type
          [] own -> "custom"
          [] key = "DATABASE_PORT" ->
                IF db_type = "postgresql" THEN "5432" ELSE "3306"
          [] key = "DATABASE_USER" ->
                IF db_type = "postgresql" THEN "postgres" ELSE "root"
          [] OTHER -> DefaultOf(key)]

AnswerSets == {AnswersOf(d, own) : d \in DbTypes, own \in BOOLEAN}

\* The collected values: the answers, secrets.token_urlsafe(32) and
\* secrets.token_hex(32).
Collected(ans) ==
    [key \in EnvKeys |->
        CASE key = "TOKEN_SECRET_KEY" -> "token_urlsafe(32)"
          [] key = "OPERA_LOG_ENCRYPT_SECRET_KEY" -> "token_hex(32)"
          [] OTHER -> ans[key]]

\* env_content.replace("KEY='default'", f"KEY='{value}'"): rewrites the line only
\* when it holds the default.
Replace(line, default, value) == IF line = default THEN value ELSE line

\* re.sub(r"KEY='[^']*'", f"KEY='{value}'", env_content): rewrites the line
\* whatever it holds, when there is one.
ReSub(line, value) == IF line # Absent THEN value ELSE line

\* env_content after the eleven substitutions.
Render(text, new) ==
    [key \in EnvKeys |->
        IF key \in RegexKeys THEN ReSub(text[key], new[key])
        ELSE Replace(text[key], DefaultOf(key), new[key])]

\* settings.KEY = value, eleven times.
Assign(s, new) ==
    [f \in DOMAIN s |-> IF f \in EnvKeys THEN new[f] ELSE s[f]]

\* The assignments are interleaved with the substitutions, after the last
\* prompt and before the write: a read or prompt error leaves settings alone,
\* a write error finds them assigned.
SettingsAfter_AssignWhilePrompting(outcome, s, new) == Assign(s, new)

SettingsAfter(outcome, s, new) ==
    IF outcome = "prompt_error" THEN s ELSE Assign(s, new)

EmptyText == [key \in EnvKeys |-> Absent]

NoEnvFile == [present |-> FALSE, text |-> EmptyText]

\* Path(env_path).write_text(env_content): opens .env for writing, which
\* truncates it, then writes.  It raises either before the file is opened
\* ("write_error") or after ("write_truncated").
FileAfter(outcome, file, text, new) ==
    CASE outcome = "written" -> [present |-> TRUE, text |-> Render(text, new)]
      [] outcome = "write_truncated" -> [present |-> TRUE, text |-> EmptyText]
      [] OTHER -> file

EnvOutcomes == {"written", "prompt_error", "write_error", "write_truncated"}

\* auto_init step 1: setup_env_file() and `if not setup_env_file(): raise
\* cappa.Exit(code=1)`.  The function returns False when .env.example is
\* missing, when reading or prompting raises and when writing .env raises.
SetupEnvFile ==
    /\ pc = "auto_env"
    /\ IF ~template
       THEN /\ Log(Event("setup_env_file", "no_template", FALSE))
            /\ UNCHANGED <<settings, envFile>>
            /\ Exit(1, "env")
       ELSE \E outcome \in EnvOutcomes :
              /\ Log(Event("setup_env_file", outcome, outcome = "written"))
              /\ settings' = SettingsAfter(outcome, settings, Collected(answers))
              /\ envFile' = FileAfter(outcome, envFile, templateText,
                                      Collected(answers))
              /\ IF outcome = "written" THEN Goto("auto_ask_db")
                                        ELSE Exit(1, "env")
    /\ UNCHANGED <<inputVars, serverVars, txnVars, cache, provVars, plugins,
                   sql_scripts, idx, execVars, plugin_name>>

\* else: console.print('已取消数据库操作'); nothing is raised, so control
\* falls through to `await init()`.
AfterDecline_Abort == "exit"

AfterDecline == "init_ask"

\* auto_init step 2: ok = Prompt.ask('即将新建/重建数据库，确认继续吗？'); only 'y'
\* provisions, anything else prints the cancellation and goes on to init().
AutoAskDb ==
    /\ pc = "auto_ask_db"
    /\ \E ok \in Answers :
         IF Confirmed(ok)
         THEN /\ Log(Event("ask_db", ok, TRUE))
              /\ Goto("prov_build")
         ELSE /\ trace' = trace \o <<Event("ask_db", ok, TRUE),
                                     Event("print", "db_cancelled", TRUE)>>
              /\ Goto(AfterDecline)
    /\ UNCHANGED <<inputVars, settings, envFile, serverVars, txnVars, cache,
                   provVars, plugins, sql_scripts, idx, execVars, plugin_name>>

(***************************************************************************)
(* install_plugin                                                          *)
(***************************************************************************)

\* if not path and not repo_url: raise cappa.Exit(code=1)
\* if path and repo_url: raise cappa.Exit(code=1)
PreconditionFails_OnlyNeither(a) == a.path = "" /\ a.repo_url = ""

PreconditionFails(a) ==
    \/ (a.path = "" /\ a.repo_url = "")
    \/ (a.path # "" /\ a.repo_url # "")

AddCheck ==
    /\ pc = "add_check"
    /\ IF PreconditionFails(args)
       THEN /\ Exit(1, "precondition")
            /\ idx' = idx
       ELSE /\ Goto("add_install")
            /\ idx' = 1
    /\ UNCHANGED <<inputVars, settings, envFile, serverVars, txnVars, cache,
                   provVars, plugins, trace, sql_scripts, execVars, plugin_name>>

\* if path: install_zip_plugin(file=path); if repo_url: install_git_plugin(...)
Installers(a) ==
    (IF a.path # "" THEN <<"install_zip_plugin">> ELSE <<>>)
    \o (IF a.repo_url # "" THEN <<"install_git_plugin">> ELSE <<>>)

\* One installer call.  It raises when the plugin is installed already, and may
\* raise for any other reason; on success the plugin is in the registry.
AddInstall ==
    /\ pc = "add_install"
    /\ idx <= Len(Installers(args))
    /\ \E name \in PluginNames :
         \E ok \in (IF name \in Range(plugins) THEN {FALSE} ELSE BOOLEAN) :
           /\ Log(Event(Installers(args)[idx], "", ok))
           /\ IF ok
              THEN /\ plugins' = Append(plugins, name)
                   /\ plugin_name' = name
                   /\ idx' = idx + 1
                   /\ Goto("add_install")
              ELSE /\ UNCHANGED <<plugins, plugin_name, idx>>
                   /\ Exit(1, "plugin")
    /\ UNCHANGED <<inputVars, settings, envFile, serverVars, txnVars, cache,
                   provVars, sql_scripts, execVars>>

\* The condition of `if sql_file and not no_sql:`.
RunsSql_IgnoreNoSql(sql_file, no_sql) == sql_file # NoPath

RunsSql(sql_file, no_sql) == sql_file # NoPath /\ ~no_sql

\* sql_file = await get_plugin_sql(plugin_name, db_type, pk_type)
\* if sql_file and not no_sql: await execute_sql_scripts(sql_file)
AddSql ==
    /\ pc = "add_install"
    /\ idx > Len(Installers(args))
    /\ \E ok \in BOOLEAN :
         LET sql_file == GetPluginSql(plugin_name, args.db_type, args.pk_type,
                                      files)
         IN /\ trace' = trace \o <<Event("print", "plugin_installed", TRUE),
                                   Event("get_plugin_sql", plugin_name, ok)>>
            /\ IF ~ok
               THEN cur' = cur /\ Exit(1, "plugin")
               ELSE IF RunsSql(sql_file, args.no_sql)
                    THEN cur' = sql_file /\ Goto("exec_begin")
                    ELSE cur' = cur /\ Return
    /\ UNCHANGED <<inputVars, settings, envFile, serverVars, txnVars, cache,
                   provVars, plugins, sql_scripts, idx, stmts, k, preData,
                   plugin_name>>

(***************************************************************************)
(* Command dispatch: FbaCli, Init and Add __call__                          *)
(***************************************************************************)

Main ==
    /\ pc = "start"
    /\ CASE cmd = "init" -> cur' = cur /\ Goto("init_ask")
         [] cmd = "auto" -> cur' = cur /\ Goto("auto_env")
         [] cmd = "add"  -> cur' = cur /\ Goto("add_check")
         [] cmd = "sql"  -> IF args.sql # ""
                            THEN cur' = UserSql /\ Goto("exec_begin")
                            ELSE cur' = cur /\ Return
    /\ UNCHANGED <<inputVars, settings, envFile, serverVars, txnVars, cache,
                   provVars, plugins, trace, sql_scripts, idx, stmts, k, preData,
                   plugin_name>>

(***************************************************************************)
(* Initial states                                                          *)
(***************************************************************************)

Owners == {"main"} \cup PluginNames

\* Seed scripts of the owners in S for the dialects in D, both key modes.
PathsOf(S, D) == {SqlPath(o, d, p) : o \in S, d \in D, p \in PkTypes}

FileSets == {PathsOf(S, D) : S \in SUBSET Owners, D \in {DbTypes, {"postgresql"}}}

\* Enumerations of installed plugins: no plugin twice.
PluginLists ==
    {<<>>} \cup {<<p>> : p \in PluginNames}
    \cup {s \in {<<p, q>> : p \in PluginNames, q \in PluginNames} : s[1] # s[2]}

DefaultArgs ==
    [path |-> "", repo_url |-> "", no_sql |-> FALSE, db_type |-> "postgresql",
     pk_type |-> "autoincrement", sql |-> ""]

ArgsOf(c) ==
    CASE c = "add" -> {[DefaultArgs EXCEPT !.path = p, !.repo_url = r,
                                        !.no_sql = n, !.db_type = d] :
                         p \in {"", "plugin.zip"}, r \in {"", "git-url"},
                         n \in BOOLEAN, d \in DbTypes}
      [] c = "sql" -> {[DefaultArgs EXCEPT !.sql = f] : f \in {"", "user.sql"}}
      [] OTHER     -> {DefaultArgs}

\* Settings as loaded from the environment when the process starts.
LoadedSettings(db_type, pk_mode) ==
    [f \in EnvKeys \cup {"DATABASE_PK_MODE"} |->
        CASE f = "DATABASE_TYPE" -> db_type
          [] f = "DATABASE_PK_MODE" -> pk_mode
          [] OTHER -> "loaded"]

\* .env.example as shipped: every line holds the default the code looks for.
ShippedTemplate == [key \in EnvKeys |-> DefaultOf(key)]

\* A .env written by hand or by an earlier run.
OldEnvFile == [present |-> TRUE, text |-> [key \in EnvKeys |-> "old"]]

Init ==
    /\ cmd \in {"init", "auto", "add", "sql"}
    /\ args \in ArgsOf(cmd)
    /\ pc = "start"
    /\ exitCode = 0
    /\ failed = ""
    /\ settings \in {LoadedSettings(d, p) :
                       d \in (IF cmd \in {"sql", "auto"} THEN {"postgresql"}
                              ELSE DbTypes),
                       p \in (IF cmd \in {"init", "auto"} THEN PkTypes
                              ELSE {"autoincrement"})}
    /\ settings0 = settings
    /\ envFile \in (IF cmd = "auto" THEN {NoEnvFile, OldEnvFile} ELSE {OldEnvFile})
    /\ envFile0 = envFile
    /\ template \in (IF cmd = "auto" THEN BOOLEAN ELSE {TRUE})
    /\ templateText = ShippedTemplate
    /\ answers \in (IF cmd = "auto" THEN {AnswersOf(d, FALSE) : d \in DbTypes}
                    ELSE {AnswersOf("postgresql", FALSE)})
    /\ dbExists \in BOOLEAN
    /\ tables = dbExists
    /\ data = IF dbExists THEN <<PreRow>> ELSE <<>>
    /\ txnOpen = FALSE
    /\ txnData = <<>>
    /\ cache = Range(CachePrefixes)
    /\ engine = "none"
    /\ plugins \in (IF cmd = "sql" THEN {<<>>} ELSE PluginLists)
    /\ files \in (IF cmd = "sql" THEN {{}} ELSE FileSets)
    /\ trace = <<>>
    /\ exists = FALSE
    /\ provOk = TRUE
    /\ sql_scripts = <<>>
    /\ idx = 0
    /\ cur = NoPath
    /\ stmts = 0
    /\ k = 0
    /\ preData = <<>>
    /\ plugin_name = ""

Next ==
    \/ Main
    \/ SetupEnvFile
    \/ AutoAskDb
    \/ ProvBuild
    \/ ProvConnect
    \/ ProvCheck
    \/ ProvTerminate
    \/ ProvDrop
    \/ ProvCreate
    \/ ProvFinally
    \/ ProvReturn
    \/ InitAsk
    \/ InitDeletePrefix
    \/ InitDropTables
    \/ InitCreateTables
    \/ InitGetSqlScripts
    \/ InitLoop
    \/ ExecBegin
    \/ ExecParse
    \/ ExecStmt
    \/ ExecExcept
    \/ ExecCommit
    \/ ExecDone
    \/ AddCheck
    \/ AddInstall
    \/ AddSql

Spec == Init /\ [][Next]_vars

(***************************************************************************)
(* Script list resolution on its own: init has been confirmed, the cache   *)
(* cleared and the tables rebuilt; the seed scripts on disk are any subset *)
(* of the main and plugin scripts of every dialect and key mode.           *)
(***************************************************************************)

AllPaths == PathsOf(Owners, DbTypes)

InitResolve ==
    /\ cmd = "init"
    /\ args = DefaultArgs
    /\ pc = "init_scripts"
    /\ exitCode = 0
    /\ failed = ""
    /\ settings \in {LoadedSettings(d, p) : d \in DbTypes, p \in PkTypes}
    /\ settings0 = settings
    /\ envFile = OldEnvFile
    /\ envFile0 = envFile
    /\ template = TRUE
    /\ templateText = ShippedTemplate
    /\ answers = AnswersOf("postgresql", FALSE)
    /\ dbExists = TRUE
    /\ tables = TRUE
    /\ data = <<>>
    /\ txnOpen = FALSE
    /\ txnData = <<>>
    /\ cache = {}
    /\ engine = "none"
    /\ plugins \in PluginLists
    /\ files \in SUBSET AllPaths
    /\ trace = <<Event("ask_init", "y", TRUE)>>
               \o [i \in DOMAIN CachePrefixes |->
                      Event("delete_prefix", CachePrefixes[i], TRUE)]
               \o <<Event("drop_tables", "", TRUE),
                    Event("create_tables", "", TRUE)>>
    /\ exists = FALSE
    /\ provOk = TRUE
    /\ sql_scripts = <<>>
    /\ idx = Len(CachePrefixes) + 1
    /\ cur = NoPath
    /\ stmts = 0
    /\ k = 0
    /\ preData = <<>>
    /\ plugin_name = ""

NextResolve == InitGetSqlScripts

SpecResolve == InitResolve /\ [][NextResolve]_vars

(***************************************************************************)
(* setup_env_file on its own: init --auto has been invoked; .env.example   *)
(* is the shipped one or differs from it in up to two lines (another value *)
(* or no line at all), the user accepts the prompts' defaults or not.      *)
(***************************************************************************)

TemplateTexts ==
    {ShippedTemplate}
    \cup {[ShippedTemplate EXCEPT ![k1] = v1, ![k2] = v2] :
            k1 \in EnvKeys, k2 \in EnvKeys,
            v1 \in {"other", Absent}, v2 \in {"other", Absent}}

InitEnv ==
    /\ cmd = "auto"
    /\ args = DefaultArgs
    /\ pc = "auto_env"
    /\ exitCode = 0
    /\ failed = ""
    /\ settings \in {LoadedSettings(d, p) : d \in DbTypes, p \in PkTypes}
    /\ settings0 = settings
    /\ envFile \in {NoEnvFile, OldEnvFile}
    /\ envFile0 = envFile
    /\ template \in BOOLEAN
    /\ templateText \in TemplateTexts
    /\ answers \in AnswerSets
    /\ dbExists = TRUE
    /\ tables = TRUE
    /\ data = <<PreRow>>
    /\ txnOpen = FALSE
    /\ txnData = <<>>
    /\ cache = Range(CachePrefixes)
    /\ engine = "none"
    /\ plugins = <<>>
    /\ files = {}
    /\ trace = <<>>
    /\ exists = FALSE
    /\ provOk = TRUE
    /\ sql_scripts = <<>>
    /\ idx = 0
    /\ cur = NoPath
    /\ stmts = 0
    /\ k = 0
    /\ preData = <<>>
    /\ plugin_name = ""

NextEnv == SetupEnvFile

SpecEnv == InitEnv /\ [][NextEnv]_vars

(***************************************************************************)
(* create_database_if_not_exists run several times in a row with the same  *)
(* Settings: init --auto has written .env and the user has confirmed the   *)
(* database step; the server holds no target database, an empty one, one   *)
(* with tables or one with tables and rows.                                *)
(***************************************************************************)

\* Number of runs in a row.
MaxRuns == 2

ServerState == [dbExists |-> dbExists, tables |-> tables, data |-> data]

\* The server states after the runs that were followed by another run.
Snapshots ==
    LET IsRun(e) == e.op = "run_again"
        runs == SelectSeq(trace, IsRun)
    IN [i \in DOMAIN runs |-> runs[i].who]

\* The function has returned True and is called again: fresh locals, the
\* same Settings.
ProvAgain ==
    /\ pc = "prov_return"
    /\ provOk
    /\ Len(Snapshots) < MaxRuns - 1
    /\ Log(Event("run_again", ServerState, TRUE))
    /\ engine' = "none"
    /\ exists' = FALSE
    /\ provOk' = TRUE
    /\ Goto("prov_build")
    /\ UNCHANGED <<inputVars, settings, envFile, serverVars, txnVars, cache,
                   plugins, sql_scripts, idx, execVars, plugin_name>>

InitProv ==
    /\ cmd = "auto"
    /\ args = DefaultArgs
    /\ pc = "prov_build"
    /\ exitCode = 0
    /\ failed = ""
    /\ settings0 \in {LoadedSettings("postgresql", p) : p \in PkTypes}
    /\ answers \in AnswerSets
    /\ settings = Assign(settings0, Collected(answers))
    /\ envFile0 = NoEnvFile
    /\ template = TRUE
    /\ templateText = ShippedTemplate
    /\ envFile = FileAfter("written", envFile0, templateText, Collected(answers))
    /\ dbExists \in BOOLEAN
    /\ tables \in (IF dbExists THEN BOOLEAN ELSE {FALSE})
    /\ data \in (IF tables THEN {<<>>, <<PreRow>>} ELSE {<<>>})
    /\ txnOpen = FALSE
    /\ txnData = <<>>
    /\ cache = Range(CachePrefixes)
    /\ engine = "none"
    /\ plugins = <<>>
    /\ files = {}
    /\ trace = <<Event("setup_env_file", "written", TRUE),
                 Event("ask_db", "y", TRUE)>>
    /\ exists = FALSE
    /\ provOk = TRUE
    /\ sql_scripts = <<>>
    /\ idx = 0
    /\ cur = NoPath
    /\ stmts = 0
    /\ k = 0
    /\ preData = <<>>
    /\ plugin_name = ""

NextTwice ==
    \/ ProvBuild
    \/ ProvConnect
    \/ ProvCheck
    \/ ProvTerminate
    \/ ProvDrop
    \/ ProvCreate
    \/ ProvFinally
    \/ ProvAgain

SpecTwice == InitProv /\ [][NextTwice]_vars

(***************************************************************************)
(* Properties                                                              *)
(***************************************************************************)

Steps == DOMAIN trace

\* Statement numbers of `path` handed to db.execute, in the order of the calls.
ExecutedOf(path) ==
    LET IsExec(e) == e.op = "execute" /\ e.who.src = path
        calls == SelectSeq(trace, IsExec)
    IN [i \in DOMAIN calls |-> calls[i].who.n]

\* Rows of statements 1..n of `path`.
RowsOf(path, n) == [i \in 1..n |-> Row(path, i)]

\* Statement n of the running script raised.
StmtRaised(n) ==
    \E i \in Steps : /\ trace[i].op = "execute"
                     /\ trace[i].who = Row(cur, n)
                     /\ ~trace[i].ok

\* execute_sql_scripts was left by an exception: parsing, a statement or the
\* commit raised.
ScriptRaised(path) ==
    \E i \in Steps : /\ trace[i].op = "transaction_end"
                     /\ trace[i].who = path
                     /\ ~trace[i].ok

\* C1: when statement k of a script fails, the statements before it are rolled
\* back: once execute_sql_scripts has been left the committed rows are those of
\* before the call, no transaction is open, and no statement after k was
\* handed to the database.
C1_ScriptAtomicity ==
    \A n \in 1..(MaxStmts + 1) :
        (StmtRaised(n) /\ pc # "exec_except")
        => /\ data = preData
           /\ ~txnOpen
           /\ ExecutedOf(cur) = [i \in 1..n |-> i]

C1_Witness ==
    /\ pc = "exit"
    /\ StmtRaised(3)
    /\ preData = <<PreRow>>
    /\ data = <<PreRow>>

\* C2: a script of N statements of which none fails: all N are executed once
\* each, in file order, nothing is visible before the commit, and after it the
\* committed rows are the rows of before the call followed by those of
\* statements 1..N in order.
C2_ScriptSuccess ==
    /\ txnOpen => data = preData
    /\ pc = "exec_done"
       => /\ ExecutedOf(cur) = [i \in 1..stmts |-> i]
          /\ data = preData \o RowsOf(cur, stmts)
          /\ ~txnOpen

C2_Witness ==
    /\ pc = "exec_done"
    /\ stmts = 3
    /\ preData = <<PreRow>>
    /\ data = <<PreRow>> \o RowsOf(cur, 3)

\* Statements sent over the administrative connection, in order.
AdminLog ==
    LET IsAdmin(e) == e.op = "admin_sql"
        calls == SelectSeq(trace, IsAdmin)
    IN [i \in DOMAIN calls |-> calls[i].who]

\* The existence check has returned.
Checked == \E i \in Steps : /\ trace[i].op = "admin_sql"
                            /\ trace[i].who = "check"
                            /\ trace[i].ok

\* create_database_if_not_exists ran to its end without an exception.
Provisioned == \E i \in Steps : /\ trace[i].op = "print"
                                /\ trace[i].who = "database_created"

IsPrefix(s, t) == Len(s) <= Len(t) /\ \A i \in DOMAIN s : s[i] = t[i]

\* C3: the existence check is the first statement; when it finds the database,
\* DROP DATABASE and then CREATE DATABASE follow (after the terminate statement
\* where the dialect has one), when it finds none only CREATE DATABASE follows;
\* CREATE is the last statement.  A statement that raises ends the sequence
\* there.
C3_ReplaceOrCreate ==
    LET full == IF exists
                THEN (IF settings.DATABASE_TYPE = "postgresql"
                      THEN <<"check", "terminate", "drop", "create">>
                      ELSE <<"check", "drop", "create">>)
                ELSE <<"check", "create">>
    IN /\ AdminLog # <<>> => AdminLog[1] = "check"
       /\ Checked => IsPrefix(AdminLog, full)
       /\ Provisioned => AdminLog = full

C3_Witness ==
    /\ cmd = "auto"
    /\ pc = "exit"
    /\ exists
    /\ settings.DATABASE_TYPE = "mysql"
    /\ AdminLog = <<"check", "drop", "create">>

\* Second case of C3: nothing found, only CREATE DATABASE after the check.
C3_WitnessAbsent ==
    /\ cmd = "auto"
    /\ pc = "exit"
    /\ Checked
    /\ ~exists
    /\ AdminLog = <<"check", "create">>

\* Bulk initialization has resolved its script list.
Resolved == \E i \in Steps : trace[i].op = "get_sql_scripts" /\ trace[i].ok

Printed(msg) == \E i \in Steps : trace[i].op = "print" /\ trace[i].who = msg

\* Rows of the scripts sql_scripts[1..n], each with the statements that were
\* executed for it.
RECURSIVE RowsOfScripts(_)
RowsOfScripts(n) ==
    IF n = 0 THEN <<>>
    ELSE RowsOfScripts(n - 1)
         \o RowsOf(sql_scripts[n], Len(ExecutedOf(sql_scripts[n])))

\* C4: when script j is the first of the resolved list to fail, the scripts
\* before it stay committed, script j leaves nothing behind, no later script
\* is parsed or executed, the success message is not printed and the exit
\* status is 1.
C4_BulkInitPerScript ==
    \A j \in 1..Len(sql_scripts) :
        (IsInit /\ Resolved /\ ScriptRaised(sql_scripts[j]))
        => /\ pc = "exit"
           /\ exitCode = 1
           /\ data = RowsOfScripts(j - 1)
           /\ ~txnOpen
           /\ \A i \in (j + 1)..Len(sql_scripts) :
                /\ ExecutedOf(sql_scripts[i]) = <<>>
                /\ ~\E e \in Steps : /\ trace[e].op = "parse_sql_script"
                                     /\ trace[e].who = sql_scripts[i]
           /\ ~Printed("init_success")

\* The scenario of the specification: the first script committed, the second
\* one fails at its statement 3, a third one is never started.
C4_Witness ==
    /\ IsInit
    /\ pc = "exit"
    /\ exitCode = 1
    /\ Len(sql_scripts) = 3
    /\ ScriptRaised(sql_scripts[2])
    /\ StmtRaised(3)
    /\ Len(data) = 3
    /\ data = RowsOf(sql_scripts[1], 3)

\* C5: install_plugin with both of path and repo_url, or with neither, exits
\* with status 1 before any installer, plugin-SQL lookup or script execution.
C5_InstallPrecondition ==
    (cmd = "add" /\ ((args.path = "") = (args.repo_url = "")))
    => /\ trace = <<>>
       /\ pc \in {"start", "add_check", "exit"}
       /\ pc = "exit" => exitCode = 1
       /\ plugin_name = ""
       /\ ~txnOpen

C5_Witness ==
    /\ cmd = "add"
    /\ args.path # ""
    /\ args.repo_url # ""
    /\ pc = "exit"
    /\ exitCode = 1

\* Position of a plugin in the enumeration of the registry.
PosOf(name) == CHOOSE j \in DOMAIN plugins : plugins[j] = name

\* C6: the resolved list is the main seed script, first, exactly when its file
\* exists, followed by the scripts of exactly those plugins that have one for
\* the configured dialect and key mode, in enumeration order, each once.
C6_ScriptListResolution ==
    Resolved =>
    LET main == SqlPath("main", settings.DATABASE_TYPE, settings.DATABASE_PK_MODE)
        rest == IF main \in files
                THEN SubSeq(sql_scripts, 2, Len(sql_scripts))
                ELSE sql_scripts
        having == {j \in DOMAIN plugins :
                     SqlPath(plugins[j], settings.DATABASE_TYPE,
                             settings.DATABASE_PK_MODE) \in files}
    IN /\ main \in files => (sql_scripts # <<>> /\ sql_scripts[1] = main)
       /\ \A i \in DOMAIN rest :
            \E j \in having :
               rest[i] = SqlPath(plugins[j], settings.DATABASE_TYPE,
                                 settings.DATABASE_PK_MODE)
       /\ Len(rest) = Cardinality(having)
       /\ \A a, b \in DOMAIN rest :
            a < b => PosOf(rest[a].owner) < PosOf(rest[b].owner)

\* The scenario of the specification: no main script, plugins A and B, only B
\* has a script for the current dialect (A has one for the other dialect).
C6_Witness ==
    /\ Resolved
    /\ plugins = <<"pA", "pB">>
    /\ settings.DATABASE_TYPE = "postgresql"
    /\ settings.DATABASE_PK_MODE = "autoincrement"
    /\ SqlPath("main", "postgresql", "autoincrement") \notin files
    /\ SqlPath("pA", "mysql", "autoincrement") \in files
    /\ SqlPath("pA", "postgresql", "autoincrement") \notin files
    /\ sql_scripts = <<SqlPath("pB", "postgresql", "autoincrement")>>

ProvOps == {"create_async_engine", "connect", "admin_sql", "dispose"}

SchemaOps == {"delete_prefix", "drop_tables", "create_tables",
              "get_sql_scripts", "parse_sql_script", "execute",
              "transaction_end"}

\* The prompt `kind` was answered before step i / answered 'y' before step i.
AskedBefore(kind, i) == \E j \in 1..(i - 1) : trace[j].op = kind

AgreedBefore(kind, i) ==
    \E j \in 1..(i - 1) : trace[j].op = kind /\ trace[j].who = "y"

\* C7 as stated: in init --auto neither the env step nor the schema step asks
\* for confirmation, only the database step does.
C7_AutoSkipsSchemaConfirmation ==
    cmd = "auto" =>
    \A i \in Steps :
        /\ trace[i].op = "setup_env_file" => i = 1
        /\ trace[i].op \in ProvOps => AgreedBefore("ask_db", i)
        /\ trace[i].op \in SchemaOps => ~AskedBefore("ask_init", i)

\* C7, amended: in init --auto the env step runs without a confirmation, the
\* database step runs only after 'y' to its prompt, and the schema step runs
\* only after 'y' to the prompt of init.
C7_AutoConfirmation ==
    cmd = "auto" =>
    \A i \in Steps :
        /\ trace[i].op = "setup_env_file" => i = 1
        /\ trace[i].op \in ProvOps => AgreedBefore("ask_db", i)
        /\ trace[i].op \in SchemaOps => AgreedBefore("ask_init", i)

C7_Witness ==
    /\ cmd = "auto"
    /\ pc = "exit"
    /\ Provisioned
    /\ Printed("init_success")
    /\ \E i \in Steps : trace[i].op = "execute"

\* Step i is the call `op` and it returned.
Done(i, op) == trace[i].op = op /\ trace[i].ok

Cleared(prefix, i) ==
    \E j \in 1..(i - 1) : Done(j, "delete_prefix") /\ trace[j].who = prefix

\* C8: in init the four cache prefixes are deleted before drop_tables starts,
\* drop_tables has returned before create_tables starts, create_tables has
\* returned before a script is resolved or executed; after a failed cache
\* deletion none of them runs.
C8_InitOrdering ==
    \A i \in Steps :
        /\ trace[i].op = "drop_tables"
           => /\ Cleared("JWT_USER_REDIS_PREFIX", i)
              /\ Cleared("TOKEN_EXTRA_INFO_REDIS_PREFIX", i)
              /\ Cleared("TOKEN_REDIS_PREFIX", i)
              /\ Cleared("TOKEN_REFRESH_REDIS_PREFIX", i)
        /\ trace[i].op = "create_tables"
           => \E j \in 1..(i - 1) : Done(j, "drop_tables")
        /\ (IsInit /\ trace[i].op \in {"get_sql_scripts", "parse_sql_script",
                                       "execute"})
           => \E j \in 1..(i - 1) : Done(j, "create_tables")
        /\ (trace[i].op = "delete_prefix" /\ ~trace[i].ok)
           => /\ i = Len(trace)
              /\ pc = "exit"

C8_Witness ==
    /\ cmd = "init"
    /\ pc = "exit"
    /\ cache = {}
    /\ tables
    /\ \E i \in Steps : trace[i].op = "execute" /\ trace[i].ok

\* Some external call raised, or setup_env_file returned False.
AnyRaised == \E i \in Steps : ~trace[i].ok

\* C9: a command that ends because a step failed exits with status 1, one in
\* which nothing failed exits with status 0.
C9_ExitStatus ==
    pc = "exit" =>
        exitCode = (IF AnyRaised \/ failed = "precondition" THEN 1 ELSE 0)

C9_Witness ==
    /\ cmd = "auto"
    /\ pc = "exit"
    /\ exitCode = 1
    /\ \E i \in Steps : /\ trace[i].op = "admin_sql"
                        /\ trace[i].who = "drop"
                        /\ ~trace[i].ok

\* Nothing failed, status 0.
C9_WitnessSuccess ==
    /\ cmd = "add"
    /\ pc = "exit"
    /\ exitCode = 0
    /\ Printed("sql_done")

\* C10: once create_database_if_not_exists has created the administrative
\* engine, the engine is disposed before the function returns, whatever was
\* raised on the way.
C10_EngineDisposed ==
    /\ engine = "open" => pc \in {"prov_connect", "prov_check", "prov_terminate",
                                  "prov_drop", "prov_create", "prov_finally"}
    /\ (\E i \in Steps : Done(i, "create_async_engine")) => engine # "none"

C10_Witness ==
    /\ pc = "exit"
    /\ engine = "disposed"
    /\ ~provOk
    /\ \E i \in Steps : /\ trace[i].op = "admin_sql"
                        /\ trace[i].who = "check"
                        /\ ~trace[i].ok

\* setup_env_file returned True / returned False for one of `kinds`.
EnvWritten ==
    \E i \in Steps : trace[i].op = "setup_env_file" /\ trace[i].ok

EnvFailed(kinds) ==
    \E i \in Steps : /\ trace[i].op = "setup_env_file"
                     /\ ~trace[i].ok
                     /\ trace[i].who \in kinds

\* C12: after setup_env_file has returned success, every collected key has in
\* the live configuration file the value the in-memory Settings hold, whatever
\* the template file contains.
C12_ConfigConsistency ==
    EnvWritten => \A key \in EnvKeys : envFile.text[key] = settings[key]

\* C18 as stated: whenever setup_env_file returns failure, the live
\* configuration file and the in-memory Settings are as before the call.
C18_UnchangedOnFailure ==
    EnvFailed({"no_template", "prompt_error", "write_error", "write_truncated"})
    => (envFile = envFile0 /\ settings = settings0)

\* C18, amended: a failure before the write (template missing, reading or
\* prompting raised) leaves the file and the Settings as before the call; when
\* writing raised, the Settings hold the collected values and the file is as
\* before or truncated.
C18_UnchangedOnEarlyFailure ==
    /\ EnvFailed({"no_template", "prompt_error"})
       => (envFile = envFile0 /\ settings = settings0)
    /\ EnvFailed({"write_error", "write_truncated"})
       => /\ \A key \in ExactKeys : settings[key] = answers[key]
          /\ settings.DATABASE_PK_MODE = settings0.DATABASE_PK_MODE
          /\ envFile \in {envFile0, [present |-> TRUE, text |-> EmptyText]}

C18_Witness ==
    /\ EnvFailed({"prompt_error"})
    /\ template
    /\ pc = "exit"
    /\ envFile = OldEnvFile
    /\ answers.DATABASE_HOST = "custom"
    /\ settings.DATABASE_HOST = "loaded"

\* The target database exists and is empty.
EmptyDatabase == [dbExists |-> TRUE, tables |-> FALSE, data |-> <<>>]

\* C11: create_database_if_not_exists run again with the same Settings and no
\* failure: CREATE DATABASE always finds the database absent (so the next run
\* can complete like the first), and after each completed run the target
\* database exists and is empty, as after every run before it.
C11_ProvisionerIdempotent ==
    /\ pc = "prov_create" => ~dbExists
    /\ (pc = "prov_return" /\ provOk)
       => /\ ServerState = EmptyDatabase
          /\ \A i \in DOMAIN Snapshots : Snapshots[i] = ServerState

C11_Witness ==
    /\ pc = "prov_return"
    /\ provOk
    /\ Len(Snapshots) = 1
    /\ Snapshots[1] = EmptyDatabase
    /\ ServerState = EmptyDatabase
    /\ AdminLog = <<"check", "create", "check", "terminate", "drop", "create">>


\* Positions in the trace of the administrative statement `what`.
AdminAt(what) ==
    {i \in Steps : trace[i].op = "admin_sql" /\ trace[i].who = what}

\* The existence check has returned and found the database.
Found == Checked /\ exists

\* C13: the statement that terminates the other sessions is sent exactly when
\* the dialect is postgresql and the check found the database; it is sent
\* once, after the check and before DROP DATABASE, DROP is not sent before it
\* has succeeded, and for mysql it is never sent.
C13_TerminateBeforeDrop ==
    /\ AdminAt("terminate") # {}
       => settings.DATABASE_TYPE = "postgresql" /\ Found
    /\ (Found /\ settings.DATABASE_TYPE = "postgresql" /\ pc # "prov_terminate")
       => AdminAt("terminate") # {}
    /\ settings.DATABASE_TYPE = "mysql" => AdminAt("terminate") = {}
    /\ Cardinality(AdminAt("terminate")) <= 1
    /\ \A i \in AdminAt("terminate") :
         /\ \E j \in AdminAt("check") : j < i /\ trace[j].ok
         /\ \A j \in AdminAt("drop") : i < j /\ trace[i].ok
    /\ (settings.DATABASE_TYPE = "postgresql" /\ AdminAt("drop") # {})
       => AdminAt("terminate") # {}

C13_Witness ==
    /\ settings.DATABASE_TYPE = "postgresql"
    /\ AdminLog = <<"check", "terminate", "drop", "create">>
    /\ Provisioned

C13_WitnessMysql ==
    /\ settings.DATABASE_TYPE = "mysql"
    /\ AdminLog = <<"check", "drop", "create">>
    /\ Provisioned


\* setup_env_file returned False, whatever the reason.
EnvStepFailed == EnvFailed(EnvOutcomes \cup {"no_template"})

\* A call of create_database_if_not_exists raised, so that it returns False.
ProvStepFailed == \E i \in Steps : trace[i].op \in ProvOps /\ ~trace[i].ok

\* init was entered: its prompt was shown or one of its steps ran.
EnteredInit ==
    \/ pc \in {"init_ask", "init_cache", "init_drop", "init_create",
               "init_scripts", "init_loop"}
    \/ \E i \in Steps : trace[i].op \in {"ask_init"} \cup SchemaOps

\* C14: in init --auto, once setup_env_file has failed there is no database
\* prompt and no administrative call, and once the database step has failed
\* (after its prompt was answered 'y') nothing follows but the disposal of
\* the engine; in both cases init is never entered, the cache keeps all its
\* prefixes, no table is dropped or created, no script runs, and the command
\* ends with exit status 1.
C14_AutoAbortsOnFailure ==
    cmd = "auto" =>
    /\ EnvStepFailed
       => /\ pc = "exit" /\ exitCode = 1
          /\ \A i \in Steps : trace[i].op \notin {"ask_db"} \cup ProvOps
          /\ engine = "none"
          /\ tables = dbExists
          /\ data = IF dbExists THEN <<PreRow>> ELSE <<>>
    /\ ProvStepFailed
       => /\ pc \in {"prov_finally", "prov_return", "exit"}
          /\ pc = "exit" => exitCode = 1
          /\ \E i \in Steps : trace[i].op = "ask_db" /\ trace[i].who = "y"
    /\ (EnvStepFailed \/ ProvStepFailed)
       => /\ ~EnteredInit
          /\ cache = Range(CachePrefixes)
          /\ ~txnOpen
          /\ ~Printed("init_success")

C14_Witness ==
    /\ cmd = "auto"
    /\ pc = "exit"
    /\ exitCode = 1
    /\ \E i \in Steps : /\ trace[i].op = "admin_sql"
                        /\ trace[i].who = "create"
                        /\ ~trace[i].ok

C14_WitnessEnv ==
    /\ cmd = "auto"
    /\ pc = "exit"
    /\ EnvFailed({"write_error"})


\* The prompt `kind` was answered, and with something other than 'y'.
Declined(kind) ==
    \E i \in Steps : trace[i].op = kind /\ trace[i].who # "y"

\* The server holds what it held when the command started.
ServerUntouched ==
    /\ tables = dbExists
    /\ data = IF dbExists THEN <<PreRow>> ELSE <<>>

\* C15: in init and init --auto a statement on the administrative connection
\* (DROP and CREATE DATABASE among them) is sent only after 'y' to the
\* database prompt, and cache deletion, drop_tables, create_tables and script
\* execution happen only after 'y' to the prompt of init.  After any other
\* answer to the database prompt no engine exists and the server is as it was;
\* after any other answer to the prompt of init the command ends with the
\* cache, the tables and the rows as that prompt found them.
C15_ConfirmationGates ==
    IsInit =>
    /\ \A i \in Steps :
         /\ trace[i].op = "admin_sql" => AgreedBefore("ask_db", i)
         /\ trace[i].op \in SchemaOps => AgreedBefore("ask_init", i)
    /\ Declined("ask_db")
       => /\ engine = "none"
          /\ AdminLog = <<>>
          /\ (\A i \in Steps : trace[i].op \notin SchemaOps)
             => ServerUntouched /\ cache = Range(CachePrefixes)
    /\ Declined("ask_init")
       => /\ pc = "exit" /\ exitCode = 0
          /\ cache = Range(CachePrefixes)
          /\ ~txnOpen
          /\ \A i \in Steps : trace[i].op \notin SchemaOps
          /\ cmd = "init" => ServerUntouched
          /\ Provisioned => dbExists /\ ~tables /\ data = <<>>

C15_Witness ==
    /\ cmd = "init"
    /\ Declined("ask_init")
    /\ pc = "exit"
    /\ data = <<PreRow>>

C15_WitnessAuto ==
    /\ cmd = "auto"
    /\ Declined("ask_db")
    /\ Declined("ask_init")
    /\ pc = "exit"
    /\ data = <<PreRow>>


\* C16: in init --auto, once the database prompt was answered with something
\* other than 'y', no engine is built, no connection is opened and no
\* statement is sent, the command is not ended by the refusal, and init comes
\* next: its prompt is the first thing to follow the cancellation message.
C16_ProvisioningOptional ==
    (cmd = "auto" /\ Declined("ask_db")) =>
    /\ engine = "none"
    /\ provOk
    /\ \A i \in Steps : trace[i].op \notin ProvOps
    /\ pc = "init_ask" \/ \E i \in Steps : trace[i].op = "ask_init"
    /\ \A i \in Steps :
         trace[i].op = "ask_db"
         => /\ trace[i + 1] = Event("print", "db_cancelled", TRUE)
            /\ Len(trace) > i + 1 => trace[i + 2].op = "ask_init"
    /\ pc = "exit" => failed \notin {"env", "database"}

C16_Witness ==
    /\ cmd = "auto"
    /\ Declined("ask_db")
    /\ pc = "exit"
    /\ Printed("init_success")
    /\ dbExists


\* Positions in the trace of the installer calls, of the calls of
\* parse_sql_script (the first thing execute_sql_scripts does), and of the
\* plugin-SQL lookup that returned.
InstallAt ==
    {i \in Steps : trace[i].op \in {"install_zip_plugin", "install_git_plugin"}}

ParseAt == {i \in Steps : trace[i].op = "parse_sql_script"}

LookupAt == {i \in Steps : trace[i].op = "get_plugin_sql" /\ trace[i].ok}

\* The seed script of the installed plugin for the dialect and key mode given
\* on the command line.
SeedScript == SqlPath(plugin_name, args.db_type, args.pk_type)

\* C17: install_plugin called with exactly one of path and repo_url calls one
\* installer, once: the zip installer for path, the git installer for
\* repo_url.  Once the lookup of the plugin's script has returned, the script
\* is run exactly once when it exists for the given dialect and key mode and
\* no_sql is false, and not at all when no_sql is true or no script exists.
\* No script is parsed or executed before the installer has returned.
C17_InstallThenSeed ==
    (cmd = "add" /\ ((args.path = "") # (args.repo_url = ""))) =>
    /\ Cardinality(InstallAt) <= 1
    /\ \A i \in InstallAt :
         trace[i].op = IF args.path # "" THEN "install_zip_plugin"
                       ELSE "install_git_plugin"
    /\ (pc \in {"exit", "exec_begin"} \/ LookupAt # {})
       => Cardinality(InstallAt) = 1
    /\ Cardinality(ParseAt) <= 1
    /\ \A i \in Steps :
         trace[i].op \in SchemaOps
         => /\ \E j \in InstallAt : j < i /\ trace[j].ok
            /\ \E j \in LookupAt : j < i
            /\ trace[i].op # "parse_sql_script" => \E j \in ParseAt : j < i
            /\ trace[i].op = "parse_sql_script" => trace[i].who = SeedScript
    /\ (LookupAt # {} /\ SeedScript \in files /\ ~args.no_sql)
       => /\ pc \in {"exec_begin", "exec_parse"} \/ Cardinality(ParseAt) = 1
          /\ pc # "exec_begin" => cur = SeedScript
    /\ (args.no_sql \/ SeedScript \notin files)
       => /\ \A i \in Steps : trace[i].op \notin SchemaOps
          /\ ~txnOpen
          /\ ServerUntouched
          /\ LookupAt # {} => pc = "exit" /\ exitCode = 0

C17_Witness ==
    /\ cmd = "add"
    /\ args.repo_url # ""
    /\ pc = "exit"
    /\ exitCode = 0
    /\ Cardinality(ParseAt) = 1
    /\ Len(data) > 1

C17_WitnessNoSql ==
    /\ cmd = "add"
    /\ args.path # ""
    /\ args.no_sql
    /\ SeedScript \in files
    /\ LookupAt # {}
    /\ pc = "exit"


\* C19: when install_plugin has installed the plugin and its seed script then
\* raises, the rows of the script are rolled back and the command exits with
\* status 1, and the plugin is still the last entry of the plugin registry.
C19_InstallSurvivesSeedFailure ==
    (cmd = "add" /\ ScriptRaised(SeedScript)) =>
    /\ \E i \in InstallAt : trace[i].ok
    /\ pc = "exit"
    /\ exitCode = 1
    /\ ~txnOpen
    /\ data = preData
    /\ ServerUntouched
    /\ plugins # <<>>
    /\ plugins[Len(plugins)] = plugin_name

C19_Witness ==
    /\ cmd = "add"
    /\ ScriptRaised(SeedScript)
    /\ StmtRaised(2)
    /\ data = <<PreRow>>
    /\ plugin_name \in Range(plugins)
    /\ exitCode = 1

====
